---- MODULE Spec2Model ----
(***************************************************************************)
(* State-machine model of the RAG chatbot (chatbot/views.py, tasks.py,     *)
(* services.py, models.py): session creation, the ingestion pipeline in    *)
(* its inline and its worker form, status polling and question answering.  *)
(*                                                                         *)
(* The model follows the rows of one session (ChatSession and the          *)
(* ProcessingStatus, VideoTranscript and ChatMessage rows it owns): every  *)
(* query of the code is keyed by the session, so the rows of different     *)
(* sessions never meet.                                                    *)
(*                                                                         *)
(* Conventions                                                             *)
(*  - a text (message, question, transcript text) is a sequence of pieces; *)
(*    the empty text is << >> and concatenation is \o;                     *)
(*  - an optional record (a row that may not exist yet) is a sequence of   *)
(*    length 0 or 1;                                                       *)
(*  - every pipeline step is one action: the computation of the step       *)
(*    followed by the single database write that ends it.  An exception    *)
(*    raised in a step runs the except-handler of the function in the same *)
(*    action (the handler's only effect is one write).                     *)
(***************************************************************************)
EXTENDS Integers, Sequences, FiniteSets, TLC

\* ------------------------------------------------------------------ bounds
MaxSegments == 2
MaxMessages == 2

\* ------------------------------------------------------- program constants
chunk_size == 1000
chunk_overlap == 200
BATCH == 60
TOP_K == 4

\* --------------------------------------------------------------- texts
None == << >>
Some(x) == << x >>

SP == " "

\* str.strip(): drop leading and trailing whitespace pieces
RECURSIVE lstrip(_)
lstrip(t) == IF t # << >> /\ Head(t) = SP THEN lstrip(Tail(t)) ELSE t

RECURSIVE rstrip(_)
rstrip(t) == IF t # << >> /\ t[Len(t)] = SP THEN rstrip(SubSeq(t, 1, Len(t) - 1)) ELSE t

strip(t) == rstrip(lstrip(t))

\* sep.join(parts)
RECURSIVE join(_, _)
join(sep, parts) ==
    IF parts = << >> THEN << >>
    ELSE IF Len(parts) = 1 THEN parts[1]
    ELSE parts[1] \o sep \o join(sep, Tail(parts))

\* ------------------------------------------------------------- models.py
\* ChatSession row as created by CreateSessionView.post (is_processed default)
ChatSession(video_id, video_url) ==
    [video_id |-> video_id, video_url |-> video_url, is_processed |-> FALSE]

\* ProcessingStatus row with the model's defaults
ProcessingStatus(st) ==
    [status |-> st, progress_percentage |-> 0, error_message |-> << >>]

\* VideoTranscript row with the model's defaults
VideoTranscript(raw, text) ==
    [raw_transcript |-> raw, full_text |-> text, chunk_count |-> 0,
     embeddings_created |-> FALSE]

\* ChatMessage row
ChatMessage(id, question, answer, context) ==
    [id |-> id, question |-> question, answer |-> answer, context_used |-> context]

\* ----------------------------------------------------------- services.py
\* Inputs of the environment, drawn from small sets ------------------------
\* str(e) of an exception raised by a collaborator (empty for an exception
\* constructed without arguments)
Excs == { << >>, << "boom" >> }

\* texts of transcript segments
Texts == { << >>, << "a" >> }

\* one entry of to_raw_data(): a dict with a text, or a malformed entry
Entries == [ok : BOOLEAN, text : Texts] \ { [ok |-> FALSE, text |-> << "a" >>] }

RECURSIVE SeqsUpTo(_, _)
SeqsUpTo(S, n) ==
    IF n = 0 THEN { << >> }
    ELSE LET shorter == SeqsUpTo(S, n - 1)
         IN  shorter \cup { Append(q, x) : q \in { r \in shorter : Len(r) = n - 1 }, x \in S }

\* descriptions of the failures the transcript provider raises
ProviderErrors ==
    { << "transcript", "Disabled" >>, << "Disabled" >>, << "Disabled", "unavailable" >>,
      << "private" >>, << "unavailable" >>, << "not found" >>, << "boom" >>, << >> }

\* what YouTubeTranscriptApi().fetch(video_id).to_raw_data() does
ProviderResults ==
    [kind : {"data"}, data : SeqsUpTo(Entries, MaxSegments), e : { << >> }]
    \cup [kind : {"raise"}, data : { << >> }, e : ProviderErrors]

\* outcome of the embedding provider during one index build: fail_batch = 0
\* when every batch is embedded, i when embedding the i-th batch raises e
EmbedOutcomes ==
    { [fail_batch |-> 0, e |-> << >>] } \cup [fail_batch : {1}, e : Excs]

\* str.lower() on the pieces of a description
lower_piece(p) == IF p = "Disabled" THEN "disabled" ELSE p

lower(t) == [i \in 1..Len(t) |-> lower_piece(t[i])]

\* `kw in text`
contains(t, kw) == \E i \in 1..Len(t) : t[i] = kw

\* YouTubeTranscriptProcessor.__init__: raises ValueError without the key
MSG_NO_KEY == << "GOOGLE_API_KEY environment variable is not set" >>

init_processor(key) ==
    IF key
    THEN [ok |-> TRUE, e |-> << >>, vector_store |-> None, retriever |-> FALSE,
          qa_chain |-> FALSE]
    ELSE [ok |-> FALSE, e |-> MSG_NO_KEY, vector_store |-> None, retriever |-> FALSE,
          qa_chain |-> FALSE]

\* the raw_data loop of fetch_transcript: malformed entries are skipped
RECURSIVE usable(_)
usable(data) ==
    IF data = << >> THEN << >>
    ELSE IF Head(data).ok
         THEN << [text |-> Head(data).text] >> \o usable(Tail(data))
         ELSE usable(Tail(data))

MSG_NO_DATA == << "No transcript data returned from the API." >>
MSG_NO_USABLE == << "Transcript was found but contained no usable text data." >>
MSG_DISABLED == << "Transcripts are disabled for this video by the video owner." >>
MSG_UNAVAILABLE == << "This video is private, unavailable, or restricted." >>
MSG_NOT_FOUND == << "No transcript is available for this video. This may be because the video is too new, has no captions, or captions are disabled." >>
MSG_FETCH_OTHER == << "Failed to fetch transcript: " >>

fetch_error(e) ==
    LET error_msg == lower(e)
    IN  IF contains(error_msg, "transcript") /\ contains(error_msg, "disabled")
        THEN MSG_DISABLED
        ELSE IF contains(error_msg, "private") \/ contains(error_msg, "unavailable")
        THEN MSG_UNAVAILABLE
        ELSE IF contains(error_msg, "not found")
        THEN MSG_NOT_FOUND
        ELSE MSG_FETCH_OTHER \o e

fetch_transcript(r) ==
    IF r.kind = "raise"
    THEN [success |-> FALSE, error |-> fetch_error(r.e), transcript |-> << >>]
    ELSE IF r.data = << >>
    THEN [success |-> FALSE, error |-> MSG_NO_DATA, transcript |-> << >>]
    ELSE IF usable(r.data) = << >>
    THEN [success |-> FALSE, error |-> MSG_NO_USABLE, transcript |-> << >>]
    ELSE [success |-> TRUE, error |-> << >>, transcript |-> usable(r.data)]

MSG_PRIVATE == << "Video is private or unavailable" >>
MSG_TR_DISABLED == << "Transcripts are disabled for this video" >>
MSG_NO_TRANSCRIPT == << "No transcript available" >>
MSG_ACCESS == << "Video access error: " >>

validate_video_accessibility(r) ==
    IF r.kind = "data"
    THEN IF r.data # << >>
         THEN [accessible |-> TRUE, message |-> << "Video is accessible" >>]
         ELSE [accessible |-> FALSE, message |-> MSG_NO_TRANSCRIPT]
    ELSE LET error_msg == lower(r.e)
         IN  IF contains(error_msg, "private") \/ contains(error_msg, "unavailable")
             THEN [accessible |-> FALSE, message |-> MSG_PRIVATE]
             ELSE IF contains(error_msg, "disabled")
             THEN [accessible |-> FALSE, message |-> MSG_TR_DISABLED]
             ELSE [accessible |-> FALSE, message |-> MSG_ACCESS \o r.e]

\* RecursiveCharacterTextSplitter(chunk_size, chunk_overlap).split_text:
\* whitespace is stripped, an empty text gives no chunk, a text that fits is
\* one chunk, a longer one is cut in windows that overlap
RECURSIVE windows(_)
windows(t) ==
    IF Len(t) <= chunk_size THEN << t >>
    ELSE << SubSeq(t, 1, chunk_size) >>
         \o windows(SubSeq(t, chunk_size - chunk_overlap + 1, Len(t)))

split_text(t) ==
    IF strip(t) = << >> THEN << >> ELSE windows(strip(t))

\* the batches of process_transcript: documents[:60], then steps of 60
RECURSIVE batches(_)
batches(documents) ==
    IF Len(documents) <= BATCH THEN << documents >>
    ELSE << SubSeq(documents, 1, BATCH) >>
         \o batches(SubSeq(documents, BATCH + 1, Len(documents)))

MSG_EMPTY_INDEX == << "list index out of range" >>

\* FAISS.from_documents(batch, embeddings): an index holding the documents of
\* the batch in their order
from_documents(batch) == batch

\* variant: the documents of other are put in front of those of store
M_C19_merge_from(store, other) == other \o store

\* store.merge_from(other): the documents of other are added after those of
\* store
merge_from(store, other) == store \o other

\* lines 169-184, batch by batch: vector_store is what self.vector_store
\* holds so far, embedded counts the calls of from_documents; embedding the
\* batch emb.fail_batch raises emb.e, an empty document list raises too
RECURSIVE merge_batches(_, _, _, _)
merge_batches(bs, i, emb, vector_store) ==
    IF bs = << >>
    THEN [ok |-> TRUE, e |-> << >>, vector_store |-> vector_store, embedded |-> i - 1]
    ELSE IF Head(bs) = << >>
    THEN [ok |-> FALSE, e |-> MSG_EMPTY_INDEX, vector_store |-> vector_store,
          embedded |-> i]
    ELSE IF emb.fail_batch = i
    THEN [ok |-> FALSE, e |-> emb.e, vector_store |-> vector_store, embedded |-> i]
    ELSE merge_batches(Tail(bs), i + 1, emb,
                       IF vector_store = None
                       THEN Some(from_documents(Head(bs)))
                       ELSE Some(merge_from(vector_store[1], from_documents(Head(bs)))))

MSG_PROCESS == << "Error processing transcript: " >>

\* variant: the retriever and the chain are set up over whatever was indexed
\* before the failure
M_C18_process_documents(documents, emb) ==
    LET built == merge_batches(batches(documents), 1, emb, None)
    IN  IF built.ok
        THEN [success |-> TRUE, error |-> << >>, chunk_count |-> Len(documents),
              vector_store |-> built.vector_store, retriever |-> TRUE,
              qa_chain |-> TRUE, embedded |-> built.embedded]
        ELSE [success |-> FALSE, error |-> MSG_PROCESS \o built.e, chunk_count |-> 0,
              vector_store |-> built.vector_store,
              retriever |-> built.vector_store # None,
              qa_chain |-> built.vector_store # None, embedded |-> built.embedded]

\* process_transcript from the chunks on: the result it returns together with
\* the fields of the processor it leaves (vector_store, retriever, qa_chain)
process_documents(documents, emb) ==
    LET built == merge_batches(batches(documents), 1, emb, None)
    IN  IF built.ok
        THEN [success |-> TRUE, error |-> << >>, chunk_count |-> Len(documents),
              vector_store |-> built.vector_store, retriever |-> TRUE,
              qa_chain |-> TRUE, embedded |-> built.embedded]
        ELSE [success |-> FALSE, error |-> MSG_PROCESS \o built.e, chunk_count |-> 0,
              vector_store |-> built.vector_store, retriever |-> FALSE,
              qa_chain |-> FALSE, embedded |-> built.embedded]

process_transcript(transcript_data, emb) ==
    LET full_text == join(<< SP >>, [i \in 1..Len(transcript_data) |-> transcript_data[i].text])
        result    == process_documents(split_text(full_text), emb)
    IN  [success |-> result.success, error |-> result.error,
         full_text |-> IF result.success THEN full_text ELSE << >>,
         chunk_count |-> result.chunk_count, vector_store |-> result.vector_store,
         retriever |-> result.retriever, qa_chain |-> result.qa_chain]

\* extract_video_id ---------------------------------------------------------
\* A URL is a sequence of pieces: the prefixes the patterns look for, the
\* delimiters the capture [^&\n?#]+ stops at, and pieces of other characters.
WATCH == "youtube.com/watch?v="
SHORT == "youtu.be/"
EMBED == "youtube.com/embed/"
VPATH == "youtube.com/v/"

\* a watch URL whose query names another parameter before v
WATCH_LATER == "youtube.com/watch?app=desktop&v="

Delims == { "&", "\n", "?", "#" }

\* len() of a piece
piece_len(p) ==
    CASE p = "dQw4w9WgXcQ" -> 11
      [] p = "abc"         -> 3
      [] p = "dQw4w9WgXcQ0" -> 12
      [] p = SHORT         -> 9
      [] p = EMBED         -> 18
      [] p = VPATH         -> 14
      [] p = "example.com/" -> 12
      [] p = "https://"    -> 8
      [] p = "youtube.com/watch" -> 17
      [] OTHER             -> 1

RECURSIVE text_len(_)
text_len(t) == IF t = << >> THEN 0 ELSE piece_len(Head(t)) + text_len(Tail(t))

patterns == << { WATCH, SHORT }, { EMBED }, { VPATH } >>

\* the greedy capture ([^&\n?#]+) starting at piece i; a watch prefix holds
\* a "?" and ends a capture after its first 17 characters
RECURSIVE capture(_, _)
capture(url, i) ==
    IF i > Len(url) \/ url[i] \in Delims THEN << >>
    ELSE IF url[i] \in { WATCH, WATCH_LATER } THEN << "youtube.com/watch" >>
    ELSE << url[i] >> \o capture(url, i + 1)

\* re.search(pattern, url): the leftmost match, as the captured group
re_search(prefixes, url) ==
    LET hits == { i \in 1..Len(url) : url[i] \in prefixes /\ capture(url, i + 1) # << >> }
    IN  IF hits = { } THEN None
        ELSE Some(capture(url, (CHOOSE i \in hits : \A j \in hits : i <= j) + 1))

id_len(video_id) ==
    IF video_id = << "youtube.com/watch" >> THEN 17 ELSE text_len(video_id)

\* variant: a capture of another length is accepted (with a warning in the log)
RECURSIVE M_C23_extract_from(_, _)
M_C23_extract_from(url, k) ==
    IF k > Len(patterns) THEN None
    ELSE LET match == re_search(patterns[k], url)
         IN  IF match # None
             THEN match
             ELSE M_C23_extract_from(url, k + 1)

RECURSIVE extract_from(_, _)
extract_from(url, k) ==
    IF k > Len(patterns) THEN None
    ELSE LET match == re_search(patterns[k], url)
         IN  IF match # None /\ id_len(match[1]) = 11
             THEN match
             ELSE extract_from(url, k + 1)

extract_video_id(url) == extract_from(url, 1)

\* retrieval and generation ------------------------------------------------
\* the distance of a chunk to a question in the embedding space: 0 for a
\* chunk that shares a piece with the question, 1 for any other
distance(doc, question) ==
    IF \E i \in 1..Len(doc) : \E j \in 1..Len(question) : doc[i] = question[j]
    THEN 0 ELSE 1

\* the documents of the store at distance d, in the order of the store
at_distance(store, question, d) ==
    SelectSeq(store, LAMBDA doc : distance(doc, question) = d)

\* the retriever built with search_kwargs k = 4: the k nearest chunks,
\* nearest first, the earlier of two equally near ones first; all chunks
\* when the index holds fewer than k
retrieve(store, question) ==
    LET ranked == at_distance(store, question, 0) \o at_distance(store, question, 1)
    IN  SubSeq(ranked, 1, IF Len(ranked) < TOP_K THEN Len(ranked) ELSE TOP_K)

format_docs(docs) == join(<< "\n\n" >>, docs)

\* what the chain (retriever, prompt, llm, parser) does for one question
GenOutcomes ==
    [ok : {TRUE}, answer : { << "answer" >>, << "I don't know" >> }, e : { << >> }]
    \cup [ok : {FALSE}, answer : { << >> }, e : Excs]

MSG_NOT_PROCESSED == << "No transcript has been processed yet" >>
MSG_ANSWERING == << "Error answering question: " >>

\* the context the chain puts into the prompt of one question:
\* self.retriever | RunnableLambda(format_docs)
chain_context(processor, question) ==
    format_docs(retrieve(processor.vector_store[1], question))

\* variant: the second retrieval is a search of the index without the limit
\* of k documents
M_C26_ask_question(processor, question, gen) ==
    IF ~processor.qa_chain
    THEN [success |-> FALSE, error |-> MSG_NOT_PROCESSED, answer |-> << >>,
          context |-> << >>, prompt |-> << >>, invoked |-> FALSE]
    ELSE IF gen.ok
    THEN [success |-> TRUE, error |-> << >>, answer |-> gen.answer,
          context |-> format_docs(at_distance(processor.vector_store[1], question, 0)
                                    \o at_distance(processor.vector_store[1], question, 1)),
          prompt |-> chain_context(processor, question),
          invoked |-> TRUE]
    ELSE [success |-> FALSE, error |-> MSG_ANSWERING \o gen.e, answer |-> << >>,
          context |-> << >>, prompt |-> << >>, invoked |-> TRUE]

\* prompt is the context the chain generated the answer from, context the
\* one of the retrieval that follows the chain
ask_question(processor, question, gen) ==
    IF ~processor.qa_chain
    THEN [success |-> FALSE, error |-> MSG_NOT_PROCESSED, answer |-> << >>,
          context |-> << >>, prompt |-> << >>, invoked |-> FALSE]
    ELSE IF gen.ok
    THEN [success |-> TRUE, error |-> << >>, answer |-> gen.answer,
          context |-> format_docs(retrieve(processor.vector_store[1], question)),
          prompt |-> chain_context(processor, question),
          invoked |-> TRUE]
    ELSE [success |-> FALSE, error |-> MSG_ANSWERING \o gen.e, answer |-> << >>,
          context |-> << >>, prompt |-> << >>, invoked |-> TRUE]

is_ready(processor) == processor.qa_chain /\ processor.retriever

\* ==================================================================== state
VARIABLES
    celery,      \* tasks.CELERY_AVAILABLE: the celery package is installed
    session,     \* the ChatSession row: None or Some(row)
    status,      \* its ProcessingStatus row
    transcript,  \* its VideoTranscript row
    messages,    \* its ChatMessage rows, in timestamp order
    queue,       \* tasks for the session sent to the worker by delay()
    req,         \* position of the create-session request
    run,         \* the ingestion run: path, position and local variables
    runs,        \* how many times a pipeline was entered for the session
    poll,        \* the status request in flight between its two queries
    out,         \* the response the last step returned (kind "none": none)
    instance,    \* a YouTubeTranscriptProcessor object: its vector_store,
                 \* retriever and qa_chain (None: not constructed)
    given,       \* the chunks the object's index was built from
    call,        \* the last call made on the object, with its arguments
    returned     \* what that call returned

view_vars == << celery, session, status, transcript, messages, queue, req, run, runs,
                poll, out >>

\* the object of the service seen alone, for the index build of many chunks
service_vars == << instance, given, call, returned >>

vars == << view_vars, service_vars >>

\* views.CELERY_AVAILABLE: importing .tasks succeeds with or without celery,
\* because tasks.py catches the ImportError of celery itself
views_CELERY_AVAILABLE == TRUE

\* inputs of the requests
Urls ==
    { << >>, << SP >>, << "https://", SHORT, "dQw4w9WgXcQ", SP >>,
      << SHORT, "abc" >>, << "example.com/" >> }

Questions == { << SP >>, << "q", SP >> }

\* outcome of one write of a transcript row
PersistOutcomes == { [ok |-> TRUE, e |-> << >>] } \cup [ok : {FALSE}, e : Excs]

NoOut == [kind |-> "none"]
NoRun == [path |-> "none", pc |-> "none", status |-> None, transcript_result |-> None]

NoCall == [name |-> "none"]

Init ==
    /\ celery \in BOOLEAN
    /\ session = None
    /\ status = None
    /\ transcript = None
    /\ messages = << >>
    /\ queue = 0
    /\ req = "none"
    /\ run = NoRun
    /\ runs = 0
    /\ poll = None
    /\ out = NoOut
    /\ instance = None
    /\ given = << >>
    /\ call = NoCall
    /\ returned = NoOut

\* ------------------------------------------------- CreateSessionView.post
MSG_URL_REQUIRED == << "Video URL is required" >>
MSG_CONFIG == << "Configuration error: " >>
MSG_INVALID_URL == << "Invalid YouTube URL. Please provide a valid YouTube video URL." >>

\* the checks of post before any row is created: None when they all pass,
\* else the error of the response
create_rejection(url, key, r) ==
    LET video_url == strip(url)
        processor == init_processor(key)
        video_id  == extract_video_id(video_url)
    IN  IF video_url = << >> THEN Some(MSG_URL_REQUIRED)
        ELSE IF ~processor.ok THEN Some(MSG_CONFIG \o processor.e)
        ELSE IF video_id = None THEN Some(MSG_INVALID_URL)
        ELSE IF ~validate_video_accessibility(r).accessible
        THEN Some(validate_video_accessibility(r).message)
        ELSE None

\* the provider is asked only by a request that passed the earlier checks
AnyResult == [kind |-> "data", data |-> << >>, e |-> << >>]

CreateInputs ==
    { in \in [url : Urls, key : BOOLEAN, r : ProviderResults] :
         (strip(in.url) = << >> \/ ~in.key \/ extract_video_id(strip(in.url)) = None)
             => in.r = AnyResult }

\* a request that is turned away (whether or not the session followed exists)
CreateRejected ==
    \E in \in CreateInputs :
        /\ create_rejection(in.url, in.key, in.r) # None
        /\ out' = [kind |-> "create", success |-> FALSE,
                   error |-> create_rejection(in.url, in.key, in.r)[1]]
        /\ UNCHANGED << service_vars, celery, session, status, transcript, messages, queue, req,
                        run, runs, poll >>

\* lines 66-73: ChatSession.objects.create
CreateSession ==
    \E in \in CreateInputs :
        /\ req = "none"
        /\ create_rejection(in.url, in.key, in.r) = None
        /\ session' = Some(ChatSession(extract_video_id(strip(in.url))[1], strip(in.url)))
        /\ req' = "session_created"
        /\ out' = NoOut
        /\ UNCHANGED << service_vars, celery, status, transcript, messages, queue, run, runs, poll >>

\* lines 75-79: ProcessingStatus.objects.create(status='pending')
CreateStatus ==
    /\ req = "session_created"
    /\ status' = Some(ProcessingStatus("pending"))
    /\ req' = "status_created"
    /\ out' = NoOut
    /\ UNCHANGED << service_vars, celery, session, transcript, messages, queue, run, runs, poll >>

\* variant: the response of post reports the error the inline run stored
M_C22_created_response ==
    IF status # None /\ status[1].status = "error"
    THEN [kind |-> "create", success |-> FALSE, error |-> status[1].error_message]
    ELSE [kind |-> "create", success |-> TRUE, video_id |-> session[1].video_id]

\* lines 92-96: the response of an accepted request
created_response ==
    [kind |-> "create", success |-> TRUE, video_id |-> session[1].video_id]

\* variant: the fallback runs inline although the task was published
M_C7_start_sync ==
    /\ run' = [NoRun EXCEPT !.path = "sync", !.pc = "fetching"]
    /\ runs' = runs + 1
    /\ req' = "inline"
    /\ out' = NoOut
    /\ queue' = queue + 1

\* entering _process_video_sync from post
start_sync ==
    /\ run' = [NoRun EXCEPT !.path = "sync", !.pc = "fetching"]
    /\ runs' = runs + 1
    /\ req' = "inline"
    /\ out' = NoOut
    /\ UNCHANGED queue

\* process_video_async.delay(session.id): without celery the task is a plain
\* function and .delay raises AttributeError; with celery the message is
\* published, or the broker refuses it and delay raises
Dispatch ==
    /\ req = "status_created"
    /\ IF views_CELERY_AVAILABLE
       THEN \E raises \in (IF celery THEN BOOLEAN ELSE { TRUE }) :
                IF raises
                THEN start_sync
                ELSE /\ queue' = queue + 1
                     /\ req' = "responded"
                     /\ out' = created_response
                     /\ UNCHANGED << run, runs >>
       ELSE start_sync
    /\ UNCHANGED << service_vars, celery, session, status, transcript, messages, poll >>

\* variant: post answers as soon as the inline pipeline was entered
M_C16_Respond ==
    /\ req = "inline"
    /\ req' = "responded"
    /\ out' = created_response
    /\ UNCHANGED << service_vars, celery, session, status, transcript, messages, queue, run, runs,
                    poll >>

\* post returns once the inline pipeline has returned
Respond ==
    /\ req = "inline"
    /\ run.pc = "done"
    /\ req' = "responded"
    /\ out' = created_response
    /\ UNCHANGED << service_vars, celery, session, status, transcript, messages, queue, run, runs,
                    poll >>

\* ------------------------------------------------------ pipeline steps
\* A step of a pipeline is a function of the run's local variables
\* (l.status, the in-memory ProcessingStatus; l.transcript_result), of the
\* stored rows (d.status, d.transcript) and of the step's inputs.  Its effect
\* names the next position and the one row the step writes:
\*   status     Some(row) when status.save() runs
\*   transcript Some(row) when the VideoTranscript row is created or saved
\*   processed  TRUE when session.save() stores is_processed = True
Local == run
Db == [status |-> status[1], transcript |-> transcript]

Effect(pc, st, tr, processed, transcript_result) ==
    [pc |-> pc, status |-> st, transcript |-> tr, processed |-> processed,
     transcript_result |-> transcript_result]

\* variant: the handler swallows the exception and stores nothing
M_C2_handler(d, e) == Effect("done", None, None, FALSE, None)

\* the generic handler of both pipelines: reload the row, store str(e)
handler(d, e) ==
    Effect("done", Some([d.status EXCEPT !.status = "error", !.error_message = e]),
           None, FALSE, None)

\* variant: the error is stored in a fresh row, progress back at its default
M_C4_fail(l, error) ==
    Effect("done", Some([ProcessingStatus("error") EXCEPT !.error_message = error]),
           None, FALSE, None)

\* an early return after storing an error the step itself detected
fail(l, error) ==
    Effect("done", Some([l.status[1] EXCEPT !.status = "error", !.error_message = error]),
           None, FALSE, None)

\* status.status = st; status.progress_percentage = p; status.save()
advance(row, st, p, pc, transcript_result) ==
    Effect(pc, Some([row EXCEPT !.status = st, !.progress_percentage = p]),
           None, FALSE, transcript_result)

Apply(eff) ==
    /\ status' = IF eff.status = None THEN status ELSE eff.status
    /\ transcript' = IF eff.transcript = None THEN transcript ELSE eff.transcript
    /\ session' = IF eff.processed
                  THEN Some([session[1] EXCEPT !.is_processed = TRUE])
                  ELSE session
    /\ run' = [run EXCEPT
                 !.pc = eff.pc,
                 !.status = IF eff.status = None THEN @ ELSE eff.status,
                 !.transcript_result =
                     IF eff.transcript_result = None THEN @ ELSE eff.transcript_result]
    /\ out' = NoOut

\* the inputs a step reads: the provider is asked only by a constructed
\* processor, the transcript row is saved only after a successful build
FetchInputs ==
    { in \in [key : BOOLEAN, r : ProviderResults] : ~in.key => in.r = AnyResult }

ProcessInputs(transcript_data) ==
    { in \in [emb : EmbedOutcomes, p : PersistOutcomes] :
         ~process_transcript(transcript_data, in.emb).success => in.p.ok }

\* ------------------------------- CreateSessionView._process_video_sync
\* load the rows, store fetching/10
sync_fetching(d) == advance(d.status, "fetching", 10, "fetch", None)

\* construct the processor and fetch the transcript, store the error or
\* processing/40; the constructor is wrapped in a try of its own and its failure is stored as a
\* configuration error
sync_fetch(l, d, key, r) ==
    LET processor         == init_processor(key)
        transcript_result == fetch_transcript(r)
    IN  IF ~processor.ok THEN fail(l, MSG_CONFIG \o processor.e)
        ELSE IF ~transcript_result.success THEN fail(l, transcript_result.error)
        ELSE advance(l.status[1], "processing", 40, "save_raw",
                     Some(transcript_result.transcript))

\* variant: the session is marked processed as soon as the raw transcript is stored
M_C5_sync_save_raw(l, d, p) ==
    IF p.ok
    THEN Effect("embedding", None, Some(VideoTranscript(l.transcript_result[1], << >>)),
                TRUE, None)
    ELSE Effect("done", Some([d.status EXCEPT !.status = "error", !.error_message = p.e]),
                None, FALSE, None)

\* VideoTranscript.objects.create(raw_transcript, full_text=''); a failure
\* of the write reaches the generic handler
sync_save_raw(l, d, p) ==
    IF p.ok
    THEN Effect("embedding", None, Some(VideoTranscript(l.transcript_result[1], << >>)),
                FALSE, None)
    ELSE handler(d, p.e)

\* variant: the stage stored before the index build is the fetching stage
M_C1_sync_embedding(l) == advance(l.status[1], "fetching", 10, "process", None)

\* store embedding/70
sync_embedding(l) == advance(l.status[1], "embedding", 70, "process", None)

\* variant: the transcript row is saved with whatever the build returned, also
\* when it failed
M_C21_sync_process(l, d, emb, p) ==
    LET processing_result == process_transcript(l.transcript_result[1], emb)
    IN  IF ~p.ok THEN handler(d, p.e)
        ELSE Effect(IF processing_result.success THEN "mark" ELSE "done",
                    IF processing_result.success THEN None
                    ELSE Some([l.status[1] EXCEPT !.status = "error",
                                                  !.error_message = processing_result.error]),
                    Some([d.transcript[1] EXCEPT
                            !.full_text = processing_result.full_text,
                            !.chunk_count = processing_result.chunk_count,
                            !.embeddings_created = TRUE]),
                    FALSE, None)

\* variant: the number of chunks is not saved with the row
M_C25_sync_process(l, d, emb, p) ==
    LET processing_result == process_transcript(l.transcript_result[1], emb)
    IN  IF ~processing_result.success THEN fail(l, processing_result.error)
        ELSE IF ~p.ok THEN handler(d, p.e)
        ELSE Effect("mark", None,
                    Some([d.transcript[1] EXCEPT
                            !.full_text = processing_result.full_text,
                            !.embeddings_created = TRUE]),
                    FALSE, None)

\* process_transcript, then store its error or save the transcript row
sync_process(l, d, emb, p) ==
    LET processing_result == process_transcript(l.transcript_result[1], emb)
    IN  IF ~processing_result.success THEN fail(l, processing_result.error)
        ELSE IF ~p.ok THEN handler(d, p.e)
        ELSE Effect("mark", None,
                    Some([d.transcript[1] EXCEPT
                            !.full_text = processing_result.full_text,
                            !.chunk_count = processing_result.chunk_count,
                            !.embeddings_created = TRUE]),
                    FALSE, None)

\* session.is_processed = True; session.save()
sync_mark_processed(l) == Effect("complete", None, None, TRUE, None)

\* store completed/100
sync_completed(l) == advance(l.status[1], "completed", 100, "done", None)

Sync_Fetching ==
    /\ run.path = "sync"
    /\ run.pc = "fetching"
    /\ Apply(sync_fetching(Db))
    /\ UNCHANGED << service_vars, celery, messages, queue, req, runs, poll >>

Sync_Fetch ==
    /\ run.path = "sync"
    /\ run.pc = "fetch"
    /\ \E in \in FetchInputs : Apply(sync_fetch(Local, Db, in.key, in.r))
    /\ UNCHANGED << service_vars, celery, messages, queue, req, runs, poll >>

Sync_SaveRaw ==
    /\ run.path = "sync"
    /\ run.pc = "save_raw"
    /\ \E p \in PersistOutcomes : Apply(sync_save_raw(Local, Db, p))
    /\ UNCHANGED << service_vars, celery, messages, queue, req, runs, poll >>

Sync_Embedding ==
    /\ run.path = "sync"
    /\ run.pc = "embedding"
    /\ Apply(sync_embedding(Local))
    /\ UNCHANGED << service_vars, celery, messages, queue, req, runs, poll >>

Sync_Process ==
    /\ run.path = "sync"
    /\ run.pc = "process"
    /\ \E in \in ProcessInputs(run.transcript_result[1]) :
          Apply(sync_process(Local, Db, in.emb, in.p))
    /\ UNCHANGED << service_vars, celery, messages, queue, req, runs, poll >>

Sync_MarkProcessed ==
    /\ run.path = "sync"
    /\ run.pc = "mark"
    /\ Apply(sync_mark_processed(Local))
    /\ UNCHANGED << service_vars, celery, messages, queue, req, runs, poll >>

Sync_Completed ==
    /\ run.path = "sync"
    /\ run.pc = "complete"
    /\ Apply(sync_completed(Local))
    /\ UNCHANGED << service_vars, celery, messages, queue, req, runs, poll >>

\* ----------------------------------------- tasks.process_video_async
\* load the rows, store fetching/10
async_fetching(d) == advance(d.status, "fetching", 10, "fetch", None)

\* construct the processor and fetch the transcript, store the error or
\* processing/40; the constructor is not wrapped and its failure reaches the generic handler
async_fetch(l, d, key, r) ==
    LET processor         == init_processor(key)
        transcript_result == fetch_transcript(r)
    IN  IF ~processor.ok THEN handler(d, processor.e)
        ELSE IF ~transcript_result.success THEN fail(l, transcript_result.error)
        ELSE advance(l.status[1], "processing", 40, "save_raw",
                     Some(transcript_result.transcript))

\* VideoTranscript.objects.create(raw_transcript, full_text=''); a failure
\* of the write reaches the generic handler
async_save_raw(l, d, p) ==
    IF p.ok
    THEN Effect("embedding", None, Some(VideoTranscript(l.transcript_result[1], << >>)),
                FALSE, None)
    ELSE handler(d, p.e)

\* store embedding/70
async_embedding(l) == advance(l.status[1], "embedding", 70, "process", None)

\* process_transcript, then store its error or save the transcript row
async_process(l, d, emb, p) ==
    LET processing_result == process_transcript(l.transcript_result[1], emb)
    IN  IF ~processing_result.success THEN fail(l, processing_result.error)
        ELSE IF ~p.ok THEN handler(d, p.e)
        ELSE Effect("mark", None,
                    Some([d.transcript[1] EXCEPT
                            !.full_text = processing_result.full_text,
                            !.chunk_count = processing_result.chunk_count,
                            !.embeddings_created = TRUE]),
                    FALSE, None)

\* session.is_processed = True; session.save()
async_mark_processed(l) == Effect("complete", None, None, TRUE, None)

\* store completed/100
async_completed(l) == advance(l.status[1], "completed", 100, "done", None)

\* the worker takes the task from the queue and enters the function
Async_Fetching ==
    /\ queue > 0
    /\ queue' = queue - 1
    /\ IF ~celery
       THEN UNCHANGED << session, status, transcript, run, runs, out >>
       ELSE LET eff == async_fetching(Db)
            IN  /\ status' = eff.status
                /\ run' = [NoRun EXCEPT !.path = "async", !.pc = eff.pc,
                                        !.status = eff.status]
                /\ runs' = runs + 1
                /\ out' = NoOut
                /\ UNCHANGED << session, transcript >>
    /\ UNCHANGED << service_vars, celery, messages, req, poll >>

Async_Fetch ==
    /\ run.path = "async"
    /\ run.pc = "fetch"
    /\ \E in \in FetchInputs : Apply(async_fetch(Local, Db, in.key, in.r))
    /\ UNCHANGED << service_vars, celery, messages, queue, req, runs, poll >>

Async_SaveRaw ==
    /\ run.path = "async"
    /\ run.pc = "save_raw"
    /\ \E p \in PersistOutcomes : Apply(async_save_raw(Local, Db, p))
    /\ UNCHANGED << service_vars, celery, messages, queue, req, runs, poll >>

Async_Embedding ==
    /\ run.path = "async"
    /\ run.pc = "embedding"
    /\ Apply(async_embedding(Local))
    /\ UNCHANGED << service_vars, celery, messages, queue, req, runs, poll >>

Async_Process ==
    /\ run.path = "async"
    /\ run.pc = "process"
    /\ \E in \in ProcessInputs(run.transcript_result[1]) :
          Apply(async_process(Local, Db, in.emb, in.p))
    /\ UNCHANGED << service_vars, celery, messages, queue, req, runs, poll >>

Async_MarkProcessed ==
    /\ run.path = "async"
    /\ run.pc = "mark"
    /\ Apply(async_mark_processed(Local))
    /\ UNCHANGED << service_vars, celery, messages, queue, req, runs, poll >>

Async_Completed ==
    /\ run.path = "async"
    /\ run.pc = "complete"
    /\ Apply(async_completed(Local))
    /\ UNCHANGED << service_vars, celery, messages, queue, req, runs, poll >>

\* variant: a worker that stops marks the run as failed
M_C17_WorkerCrash ==
    /\ run.path = "async"
    /\ run.pc \notin { "done", "crashed" }
    /\ run' = [run EXCEPT !.pc = "crashed"]
    /\ status' = Some([status[1] EXCEPT !.status = "error",
                                        !.error_message = << "worker lost" >>])
    /\ out' = NoOut
    /\ UNCHANGED << service_vars, celery, session, transcript, messages, queue, req, runs, poll >>

\* the worker process stops between two steps of a run
WorkerCrash ==
    /\ run.path = "async"
    /\ run.pc \notin { "done", "crashed" }
    /\ run' = [run EXCEPT !.pc = "crashed"]
    /\ out' = NoOut
    /\ UNCHANGED << service_vars, celery, session, status, transcript, messages, queue, req, runs,
                    poll >>

\* ----------------------------------------------------- AskQuestionView.post
MSG_STILL_PROCESSING == << "Video is still being processed. Please wait." >>
MSG_QUESTION_REQUIRED == << "Question is required" >>
MSG_LOAD_FAILED == << "Failed to load transcript data" >>
MSG_ASK_FAILED == << "Failed to process question" >>

ask_failure(error, built, invoked) ==
    [success |-> FALSE, error |-> error, answer |-> << >>, context |-> << >>,
     question |-> << >>, built |-> built, invoked |-> invoked]

\* variant: the handler does not look at is_processed
M_C9_ask_post(sess, tr, body, key, emb, gen, saved) ==
    IF sess = None THEN ask_failure(MSG_ASK_FAILED, FALSE, FALSE)
    ELSE IF strip(body) = << >> THEN ask_failure(MSG_QUESTION_REQUIRED, FALSE, FALSE)
    ELSE IF ~init_processor(key).ok THEN ask_failure(MSG_ASK_FAILED, FALSE, FALSE)
    ELSE IF tr = None THEN ask_failure(MSG_ASK_FAILED, FALSE, FALSE)
    ELSE LET transcript_result == process_transcript(tr[1].raw_transcript, emb)
             result == ask_question(transcript_result, strip(body), gen)
         IN  IF ~transcript_result.success THEN ask_failure(MSG_LOAD_FAILED, TRUE, FALSE)
             ELSE IF ~result.success THEN ask_failure(result.error, TRUE, result.invoked)
             ELSE IF ~saved THEN ask_failure(MSG_ASK_FAILED, TRUE, TRUE)
             ELSE [success |-> TRUE, error |-> << >>, answer |-> result.answer,
                   context |-> result.context, question |-> strip(body),
                   built |-> TRUE, invoked |-> TRUE]

\* variant: the question is put to the new processor without rebuilding the
\* index
M_C20_ask_post(sess, tr, body, key, emb, gen, saved) ==
    IF sess = None THEN ask_failure(MSG_ASK_FAILED, FALSE, FALSE)
    ELSE IF ~sess[1].is_processed THEN ask_failure(MSG_STILL_PROCESSING, FALSE, FALSE)
    ELSE IF strip(body) = << >> THEN ask_failure(MSG_QUESTION_REQUIRED, FALSE, FALSE)
    ELSE IF ~init_processor(key).ok THEN ask_failure(MSG_ASK_FAILED, FALSE, FALSE)
    ELSE IF tr = None THEN ask_failure(MSG_ASK_FAILED, FALSE, FALSE)
    ELSE LET result == ask_question(init_processor(key), strip(body), gen)
         IN  IF ~result.success THEN ask_failure(result.error, FALSE, result.invoked)
             ELSE IF ~saved THEN ask_failure(MSG_ASK_FAILED, FALSE, TRUE)
             ELSE [success |-> TRUE, error |-> << >>, answer |-> result.answer,
                   context |-> result.context, question |-> strip(body),
                   built |-> FALSE, invoked |-> TRUE]

\* the handler up to its response: built tells whether process_transcript
\* was called, invoked whether the chain was, saved whether
\* ChatMessage.objects.create succeeds (its failure reaches the handler's
\* except); the row of a successful response is appended by the action
ask_post(sess, tr, body, key, emb, gen, saved) ==
    IF sess = None THEN ask_failure(MSG_ASK_FAILED, FALSE, FALSE)
    ELSE IF ~sess[1].is_processed THEN ask_failure(MSG_STILL_PROCESSING, FALSE, FALSE)
    ELSE IF strip(body) = << >> THEN ask_failure(MSG_QUESTION_REQUIRED, FALSE, FALSE)
    ELSE IF ~init_processor(key).ok THEN ask_failure(MSG_ASK_FAILED, FALSE, FALSE)
    ELSE IF tr = None THEN ask_failure(MSG_ASK_FAILED, FALSE, FALSE)
    ELSE LET transcript_result == process_transcript(tr[1].raw_transcript, emb)
             result == ask_question(transcript_result, strip(body), gen)
         IN  IF ~transcript_result.success THEN ask_failure(MSG_LOAD_FAILED, TRUE, FALSE)
             ELSE IF ~result.success THEN ask_failure(result.error, TRUE, result.invoked)
             ELSE IF ~saved THEN ask_failure(MSG_ASK_FAILED, TRUE, TRUE)
             ELSE [success |-> TRUE, error |-> << >>, answer |-> result.answer,
                   context |-> result.context, question |-> strip(body),
                   built |-> TRUE, invoked |-> TRUE]

\* the inputs a request reads: a request that is turned away early reads
\* neither the key nor the providers
AnyGen == [ok |-> TRUE, answer |-> << "answer" >>, e |-> << >>]
AnyEmb == [fail_batch |-> 0, e |-> << >>]

AskInputs ==
    { in \in [body : Questions, key : BOOLEAN, emb : EmbedOutcomes, gen : GenOutcomes,
              saved : BOOLEAN] :
         /\ (session = None \/ strip(in.body) = << >>) => in.key
         /\ ~in.key => in.emb = AnyEmb
         /\ in.emb.fail_batch # 0 => in.gen = AnyGen
         /\ (~in.key \/ in.emb.fail_batch # 0 \/ ~in.gen.ok) => in.saved }

\* variant: a failed question is written into the ProcessingStatus row
M_C10_AskQuestion ==
    /\ Len(messages) < MaxMessages
    /\ \E in \in AskInputs :
          LET response == ask_post(session, transcript, in.body, in.key, in.emb, in.gen,
                                        in.saved)
              id       == Len(messages) + 1
          IN  /\ messages' =
                    IF response.success
                    THEN Append(messages, ChatMessage(id, response.question,
                                                      response.answer, response.context))
                    ELSE messages
              /\ status' =
                    IF response.success \/ status = None THEN status
                    ELSE Some([status[1] EXCEPT !.status = "error",
                                                !.error_message = response.error])
              /\ out' = [kind |-> "ask", success |-> response.success,
                         error |-> response.error, answer |-> response.answer,
                         message_id |-> IF response.success THEN id ELSE 0,
                         built |-> response.built, invoked |-> response.invoked]
    /\ UNCHANGED << service_vars, celery, session, transcript, queue, req, run, runs, poll >>

\* variant: the new message is stored in front of the earlier ones
M_C11_AskQuestion ==
    /\ Len(messages) < MaxMessages
    /\ \E in \in AskInputs :
          LET response == ask_post(session, transcript, in.body, in.key, in.emb, in.gen,
                                        in.saved)
              id       == Len(messages) + 1
          IN  /\ messages' =
                    IF response.success
                    THEN << ChatMessage(id, response.question, response.answer,
                                        response.context) >> \o messages
                    ELSE messages
              /\ out' = [kind |-> "ask", success |-> response.success,
                         error |-> response.error, answer |-> response.answer,
                         message_id |-> IF response.success THEN id ELSE 0,
                         built |-> response.built, invoked |-> response.invoked]
    /\ UNCHANGED << service_vars, celery, session, status, transcript, queue, req, run, runs, poll >>

AskQuestion ==
    /\ Len(messages) < MaxMessages
    /\ \E in \in AskInputs :
          LET response == ask_post(session, transcript, in.body, in.key, in.emb, in.gen,
                                        in.saved)
              id       == Len(messages) + 1
          IN  /\ messages' =
                    IF response.success
                    THEN Append(messages, ChatMessage(id, response.question,
                                                      response.answer, response.context))
                    ELSE messages
              /\ out' = [kind |-> "ask", success |-> response.success,
                         error |-> response.error, answer |-> response.answer,
                         message_id |-> IF response.success THEN id ELSE 0,
                         built |-> response.built, invoked |-> response.invoked]
    /\ UNCHANGED << service_vars, celery, session, status, transcript, queue, req, run, runs, poll >>

\* ----------------------------------------------------- SessionStatusView.get
MSG_STATUS_FAILED == << "Failed to get status" >>

status_failure == [kind |-> "status", success |-> FALSE, error |-> MSG_STATUS_FAILED]

\* first query: the ChatSession row
StatusReadSession ==
    /\ poll = None
    /\ IF session = None
       THEN /\ out' = status_failure
            /\ UNCHANGED poll
       ELSE /\ poll' = Some([is_processed |-> session[1].is_processed])
            /\ out' = NoOut
    /\ UNCHANGED << service_vars, celery, session, status, transcript, messages, queue, req, run,
                    runs >>

status_response(is_processed, row) ==
    [kind |-> "status", success |-> TRUE, status |-> row.status,
     progress |-> row.progress_percentage, is_processed |-> is_processed,
     error |-> IF row.status = "error" THEN Some(row.error_message) ELSE None]

\* second query: session.processing_status, then the response
StatusReadStatus ==
    /\ poll # None
    /\ out' = IF status = None THEN status_failure
              ELSE status_response(poll[1].is_processed, status[1])
    /\ poll' = None
    /\ UNCHANGED << service_vars, celery, session, status, transcript, messages, queue, req, run,
                    runs >>

\* ------------------------------------------------------- ChatHistoryView.get
MSG_HISTORY_FAILED == << "Failed to get chat history" >>

ChatHistory ==
    /\ out' = IF session = None
              THEN [kind |-> "history", success |-> FALSE, error |-> MSG_HISTORY_FAILED]
              ELSE [kind |-> "history", success |-> TRUE,
                    messages |-> [i \in 1..Len(messages) |->
                                     [id |-> messages[i].id,
                                      question |-> messages[i].question,
                                      answer |-> messages[i].answer]],
                    is_processed |-> session[1].is_processed]
    /\ UNCHANGED << service_vars, celery, session, status, transcript, messages, queue, req, run,
                    runs, poll >>

\* ===================================================================== spec
Next ==
    \/ CreateRejected
    \/ CreateSession
    \/ CreateStatus
    \/ Dispatch
    \/ Respond
    \/ Sync_Fetching
    \/ Sync_Fetch
    \/ Sync_SaveRaw
    \/ Sync_Embedding
    \/ Sync_Process
    \/ Sync_MarkProcessed
    \/ Sync_Completed
    \/ Async_Fetching
    \/ Async_Fetch
    \/ Async_SaveRaw
    \/ Async_Embedding
    \/ Async_Process
    \/ Async_MarkProcessed
    \/ Async_Completed
    \/ WorkerCrash
    \/ AskQuestion
    \/ StatusReadSession
    \/ StatusReadStatus
    \/ ChatHistory

Spec == Init /\ [][Next]_vars

\* ================================================ the service object alone
\* The views build an index from the transcript of one video.  The build of
\* an index over several batches is followed here on a processor object of
\* its own, from the chunks on: construction, one call of process_transcript
\* (lines 165-207), then questions.
MaxChunks == 150

\* the numbers of chunks around the batch limits, up to MaxChunks
ChunkCounts ==
    { n \in 0..MaxChunks : n <= 1 \/ n = MaxChunks \/ n % BATCH \in { 0, 1, BATCH - 1 } }

\* n chunks, each with a text of its own; every period-th one is on topic "a"
chunks(n, period) ==
    [i \in 1..n |-> << ToString(i), IF i % period = 0 THEN "a" ELSE "b" >>]

ChunkLists == { chunks(n, period) : n \in ChunkCounts, period \in { 1, 50 } }

\* the embedding provider during a build of these documents: it embeds
\* every batch, or fails at one of them (it is not asked for an empty list)
BuildEmbedOutcomes(documents) ==
    { [fail_batch |-> 0, e |-> << >>] }
    \cup [fail_batch : 1..(IF documents = << >> THEN 0 ELSE Len(batches(documents))),
          e : Excs]

BuildQuestions == { << "a" >>, << "b" >>, << "z" >> }

\* YouTubeTranscriptProcessor()
Construct ==
    /\ instance = None
    /\ LET processor == init_processor(TRUE)
       IN  instance' = Some([vector_store |-> processor.vector_store,
                             retriever |-> processor.retriever,
                             qa_chain |-> processor.qa_chain])
    /\ call' = [name |-> "__init__"]
    /\ returned' = NoOut
    /\ UNCHANGED << view_vars, given >>

\* processor.process_transcript on the new object
ProcessTranscript ==
    /\ call.name = "__init__"
    /\ \E documents \in ChunkLists :
       \E emb \in BuildEmbedOutcomes(documents) :
          LET result == process_documents(documents, emb)
          IN  /\ instance' = Some([vector_store |-> result.vector_store,
                                   retriever |-> result.retriever,
                                   qa_chain |-> result.qa_chain])
              /\ given' = documents
              /\ call' = [name |-> "process_transcript", emb |-> emb]
              /\ returned' = [success |-> result.success, error |-> result.error,
                              chunk_count |-> result.chunk_count,
                              embedded |-> result.embedded]
    /\ UNCHANGED view_vars

\* processor.is_ready() and processor.ask_question(question)
Ask ==
    /\ call.name \in { "process_transcript", "ask_question" }
    /\ \E question \in BuildQuestions :
       \E gen \in GenOutcomes :
          /\ call' = [name |-> "ask_question", question |-> question, gen |-> gen]
          /\ returned' = [ready |-> is_ready(instance[1]),
                          result |-> ask_question(instance[1], question, gen)]
    /\ UNCHANGED << view_vars, instance, given >>

\* the URLs put to the resolver: up to MaxUrlPieces pieces
MaxUrlPieces == 4

VIDEO_ID == "dQw4w9WgXcQ"

UrlPieces ==
    { "https://", WATCH, WATCH_LATER, SHORT, EMBED, VPATH, VIDEO_ID, "abc", "&" }

ResolverUrls == SeqsUpTo(UrlPieces, MaxUrlPieces)

\* processor.extract_video_id(video_url) on the new object
ExtractVideoId ==
    /\ call.name = "__init__"
    /\ \E url \in ResolverUrls :
          /\ call' = [name |-> "extract_video_id", url |-> url]
          /\ returned' = [video_id |-> extract_video_id(url)]
    /\ UNCHANGED << view_vars, instance, given >>

BuildNext ==
    \/ Construct
    \/ ProcessTranscript
    \/ Ask
    \/ ExtractVideoId

BuildSpec == Init /\ [][BuildNext]_vars

\* ================================================================== claims
\* the ProcessingStatus row as (status, progress), when it exists
Stage(row) == << row.status, row.progress_percentage >>

Terminal(st) == st # None /\ st[1].status \in { "completed", "error" }

\* ---------------------------------------------------------------------- C1
\* C1: the stored ProcessingStatus only takes the transitions
\* pending(0) -> fetching(10) -> processing(40) -> embedding(70) ->
\* completed(100), or goes to error from fetching, processing or embedding;
\* no stage is skipped or revisited, error is never entered from pending, and
\* a row that is completed or error is never changed again.
C1_Edges ==
    { << << "pending", 0 >>, << "fetching", 10 >> >>,
      << << "fetching", 10 >>, << "processing", 40 >> >>,
      << << "processing", 40 >>, << "embedding", 70 >> >>,
      << << "embedding", 70 >>, << "completed", 100 >> >>,
      << << "fetching", 10 >>, << "error", 10 >> >>,
      << << "processing", 40 >>, << "error", 40 >> >>,
      << << "embedding", 70 >>, << "error", 70 >> >> }

C1_Step ==
    status' # status =>
        IF status = None
        THEN status' # None /\ Stage(status'[1]) = << "pending", 0 >>
        ELSE /\ status' # None
             /\ ~Terminal(status)
             /\ << Stage(status[1]), Stage(status'[1]) >> \in C1_Edges

C1_StatusTransitions == [][C1_Step]_vars

\* a run went through every stage and ended completed
C1_Witness ==
    /\ status # None
    /\ Stage(status[1]) = << "completed", 100 >>
    /\ run.pc = "done"
    /\ runs = 1

\* ---------------------------------------------------------------------- C2
\* the effect of the step the run is at, for given inputs
step_fetch(in) ==
    IF run.path = "sync" THEN sync_fetch(Local, Db, in.key, in.r)
    ELSE async_fetch(Local, Db, in.key, in.r)

step_save_raw(p) ==
    IF run.path = "sync" THEN sync_save_raw(Local, Db, p) ELSE async_save_raw(Local, Db, p)

step_process(in) ==
    IF run.path = "sync" THEN sync_process(Local, Db, in.emb, in.p)
    ELSE async_process(Local, Db, in.emb, in.p)

\* the effects of the current step for the inputs in which a stage fails,
\* each with the message of that failure
StageFailures ==
    IF run.pc = "fetch"
    THEN { << step_fetch(in),
              IF ~init_processor(in.key).ok
              THEN (IF run.path = "sync" THEN MSG_CONFIG ELSE << >>) \o init_processor(in.key).e
              ELSE fetch_transcript(in.r).error >> :
             in \in { i \in FetchInputs :
                         ~init_processor(i.key).ok \/ ~fetch_transcript(i.r).success } }
    ELSE IF run.pc = "save_raw"
    THEN { << step_save_raw(p), p.e >> : p \in { q \in PersistOutcomes : ~q.ok } }
    ELSE IF run.pc = "process"
    THEN { << step_process(in),
              IF ~process_transcript(run.transcript_result[1], in.emb).success
              THEN process_transcript(run.transcript_result[1], in.emb).error
              ELSE in.p.e >> :
             in \in { i \in ProcessInputs(run.transcript_result[1]) :
                         \/ ~process_transcript(run.transcript_result[1], i.emb).success
                         \/ ~i.p.ok } }
    ELSE { }

Processed == session # None /\ session[1].is_processed
EmbeddingsCreated == transcript # None /\ transcript[1].embeddings_created

\* C2: every failure of a pipeline stage (processor construction, transcript
\* fetch, transcript persistence, chunking, embedding) ends the step by
\* storing status = error with the failure's message and ending the run,
\* without marking the session or the transcript; in a run that stored error
\* the session is not processed, the transcript is not marked
\* embeddings_created, and no row of the session changes any more.
C2_FailureCaught ==
    \A f \in StageFailures :
        /\ f[1].pc = "done"
        /\ f[1].status # None
        /\ f[1].status[1].status = "error"
        /\ f[1].status[1].error_message = f[2]
        /\ ~f[1].processed
        /\ f[1].transcript = None

C2_Halted ==
    (status # None /\ status[1].status = "error") =>
        /\ run.pc = "done"
        /\ ~Processed
        /\ ~EmbeddingsCreated

C2_Frozen ==
    (status # None /\ status[1].status = "error") =>
        /\ status' = status
        /\ session' = session
        /\ transcript' = transcript
        /\ run' = run

C3_Snapshots ==
    { << "pending", 0, FALSE >>, << "fetching", 10, FALSE >>,
      << "processing", 40, FALSE >>, << "embedding", 70, FALSE >>,
      << "completed", 100, TRUE >> }

\* C3: every status response is one of (pending,0,false), (fetching,10,false),
\* (processing,40,false), (embedding,70,false), (completed,100,true) or
\* (error,p,false); is_processed = true is never reported with a status other
\* than completed.
C3_PollConsistent ==
    (out.kind = "status" /\ out.success) =>
        \/ << out.status, out.progress, out.is_processed >> \in C3_Snapshots
        \/ out.status = "error" /\ ~out.is_processed

\* ---------------------------------------------------------------------- C4
\* C4: the stored progress never decreases, a transition to error leaves it
\* unchanged, an error row is never changed again, and progress is 100
\* exactly when the status is completed.
C4_Step ==
    (status # None /\ status' # status) =>
        /\ status' # None
        /\ status'[1].progress_percentage >= status[1].progress_percentage
        /\ status'[1].status = "error" =>
               status'[1].progress_percentage = status[1].progress_percentage
        /\ status[1].status # "error"

C4_Ends ==
    status # None =>
        /\ status[1].progress_percentage \in { 0, 10, 40, 70, 100 }
        /\ status[1].progress_percentage = 100 <=> status[1].status = "completed"
        /\ run.pc = "done" => Terminal(status)

C4_ProgressMonotonic == []C4_Ends /\ [][C4_Step]_vars

\* a run failed while its transcript row was saved, at 40 percent
C4_Witness ==
    /\ status # None
    /\ Stage(status[1]) = << "error", 40 >>
    /\ run.pc = "done"

\* ---------------------------------------------------------------------- C5
\* C5: is_processed is false when the session is created, becomes true only
\* in the step that follows a successful fetch, chunking and index build of
\* the session's single run, and is never set back to false.
C5_Step ==
    /\ (session = None /\ session' # None) => ~session'[1].is_processed
    /\ session # None => session' # None
    /\ Processed => session'[1].is_processed
    /\ (session # None /\ ~Processed /\ session'[1].is_processed) =>
           /\ run.pc = "mark"
           /\ run'.pc = "complete"
           /\ runs = 1
           /\ run.transcript_result # None
           /\ transcript # None
           /\ transcript[1].embeddings_created
           /\ transcript[1].chunk_count >= 1
           /\ transcript[1].raw_transcript = run.transcript_result[1]

C5_ProcessedOnce == [][C5_Step]_vars

\* a processed session that answered a question, polled again afterwards
C5_Witness ==
    /\ Processed
    /\ Len(messages) = 1
    /\ out.kind = "status"
    /\ out.success
    /\ out.is_processed

\* ---------------------------------------------------------------------- C6
\* C6: the inline pipeline and the worker pipeline are the same function: in
\* every state a run can be in, and for the same outcomes of processor
\* construction, fetch, transcript persistence and index build, the step of
\* _process_video_sync and the step of process_video_async write the same
\* row and continue at the same position.
C6_SamePipeline ==
    /\ (status # None /\ run.pc \in { "none", "fetching" }) =>
           sync_fetching(Db) = async_fetching(Db)
    /\ run.pc = "fetch" =>
           \A in \in FetchInputs :
               sync_fetch(Local, Db, in.key, in.r) = async_fetch(Local, Db, in.key, in.r)
    /\ run.pc = "save_raw" =>
           \A p \in PersistOutcomes :
               sync_save_raw(Local, Db, p) = async_save_raw(Local, Db, p)
    /\ run.pc = "embedding" => sync_embedding(Local) = async_embedding(Local)
    /\ run.pc = "process" =>
           \A in \in ProcessInputs(run.transcript_result[1]) :
               sync_process(Local, Db, in.emb, in.p) = async_process(Local, Db, in.emb, in.p)
    /\ run.pc = "mark" => sync_mark_processed(Local) = async_mark_processed(Local)
    /\ run.pc = "complete" => sync_completed(Local) = async_completed(Local)

\* ---------------------------------------------------------------------- C7
\* C7: an accepted create-session request starts the pipeline for its session
\* exactly once: before the dispatch nothing is queued or running, after it
\* there is exactly one queued task or one entered run, never both and never
\* two, the inline run is the one entered when submitting raised, and a
\* queued task is only ever taken by a worker that runs the pipeline.
C7_ExactlyOnce ==
    /\ queue + runs = (IF req \in { "inline", "responded" } THEN 1 ELSE 0)
    /\ (runs = 0) <=> (run.path = "none")
    /\ req = "inline" => run.path = "sync"
    /\ (queue > 0 \/ run.path = "async") => celery

\* submitting to the worker raised, the view ran the pipeline inline, once
C7_Witness ==
    /\ celery
    /\ req = "responded"
    /\ run.path = "sync"
    /\ run.pc = "done"
    /\ runs = 1
    /\ queue = 0

\* ---------------------------------------------------------------------- C8
\* C8: in every state of the ProcessingStatus row, error_message is non-empty
\* if and only if status = error.
C8_MessageIffError ==
    status # None => (status[1].error_message # << >> <=> status[1].status = "error")

\* ---------------------------------------------------------------------- C9
\* C9: a question posted while is_processed is false is answered with the
\* "still being processed" error; no index is built, the model is not invoked
\* and no message is appended.
C9_Step ==
    (out'.kind = "ask" /\ session # None /\ ~session[1].is_processed) =>
        /\ ~out'.success
        /\ out'.error = MSG_STILL_PROCESSING
        /\ ~out'.built
        /\ ~out'.invoked
        /\ messages' = messages

C9_UnprocessedRejected == [][C9_Step]_vars

\* a question was turned away while the run was embedding, the raw
\* transcript already stored
C9_Witness ==
    /\ out.kind = "ask"
    /\ out.error = MSG_STILL_PROCESSING
    /\ transcript # None
    /\ status # None
    /\ status[1].status = "embedding"
    /\ messages = << >>

\* --------------------------------------------------------------------- C10
\* C10: no question request, whatever its outcome, changes the
\* ProcessingStatus row, and a failed one carries its error in the response.
C10_Step ==
    out'.kind = "ask" =>
        /\ status' = status
        /\ ~out'.success => out'.error # << >>

C10_AskKeepsStatus == [][C10_Step]_vars

\* a question failed in generation on a completed session
C10_Witness ==
    /\ out.kind = "ask"
    /\ ~out.success
    /\ out.invoked
    /\ status # None
    /\ Stage(status[1]) = << "completed", 100 >>

\* --------------------------------------------------------------------- C11
\* the context a question retrieves from the index of the stored transcript
stored_context(question) ==
    format_docs(retrieve(process_transcript(transcript[1].raw_transcript, AnyEmb)
                             .vector_store[1], question))

\* C11: the stored messages only grow at the end: a step that answers a
\* question successfully appends exactly one message, holding the question
\* asked, the answer of the response and the context retrieved from the
\* stored transcript, and leaves the earlier messages as they were; every
\* other step, a failed question included, leaves the messages unchanged.
C11_Step ==
    IF out'.kind = "ask" /\ out'.success
    THEN /\ Len(messages') = Len(messages) + 1
         /\ SubSeq(messages', 1, Len(messages)) = messages
         /\ LET m == messages'[Len(messages')]
            IN  /\ m.id = out'.message_id
                /\ m.question \in { strip(q) : q \in Questions } \ { << >> }
                /\ m.answer = out'.answer
                /\ m.context_used = stored_context(m.question)
    ELSE messages' = messages

C11_AppendOnly == [][C11_Step]_vars

\* a second question, answered "I don't know", was appended after the first
\* with the context it retrieved
C11_Witness ==
    /\ Len(messages) = 2
    /\ messages[1].answer = << "answer" >>
    /\ messages[2].answer = << "I don't know" >>
    /\ messages[2].context_used # << >>
    /\ out.kind = "ask"
    /\ out.success
    /\ out.message_id = 2

\* --------------------------------------------------------------------- C12
C12_Step ==
    (out'.kind = "create" /\ ~out'.success) =>
        /\ session' = session
        /\ status' = status
        /\ transcript' = transcript
        /\ run' = run
        /\ runs' = runs
        /\ queue' = queue

\* the messages a failed construction of the processor leaves
C12_ConfigErrors == { MSG_CONFIG \o MSG_NO_KEY, MSG_NO_KEY }

C12_NotStored ==
    status # None => status[1].error_message \notin C12_ConfigErrors

\* C12: a create-session request that is rejected (empty URL, missing
\* credential, unresolvable URL, failed accessibility pre-check) creates no
\* row and starts no run, and a configuration error is never stored as the
\* error of a session that exists.
C12_RejectCreatesNothing == []C12_NotStored /\ [][C12_Step]_vars

\* --------------------------------------------------------------------- C13
\* the inputs of the index-build step in which embedding and the write of the
\* transcript row succeed
C13_GoodInputs ==
    { in \in ProcessInputs(run.transcript_result[1]) : in.emb.fail_batch = 0 /\ in.p.ok }

\* C13: a run whose fetch returned at least one segment (also segments whose
\* text is empty) and whose embedding succeeds reaches completed/100 and
\* is_processed: at the index-build step of such a run no step ends in error
\* (error is terminal, so a run that stores it never reaches completed), and
\* a run that passed the build ends completed and processed.
C13_Completes ==
    /\ (run.pc = "process" /\ Len(run.transcript_result[1]) >= 1) =>
           \A in \in C13_GoodInputs : step_process(in).pc = "mark"
    /\ (run.pc = "done" /\ EmbeddingsCreated) =>
           (Stage(status[1]) = << "completed", 100 >> /\ Processed)

\* --------------------------------------------------------------------- C14
\* a failure of the transcript source whose description says "disabled"
C14_DisabledFailures ==
    { in \in FetchInputs :
         in.key /\ in.r.kind = "raise" /\ contains(lower(in.r.e), "disabled") }

\* the message tells that transcripts are disabled: it is the message of the
\* Disabled kind, or it carries a description that says so
C14_SaysDisabled(message) ==
    message = MSG_DISABLED \/ contains(lower(message), "disabled")

\* C14: when the transcript source raises a "disabled" failure in the fetch
\* step of a run, the step stores status = error with a message telling that
\* transcripts are disabled and ends the run, and the session is not
\* processed.
C14_DisabledEndsInError ==
    run.pc = "fetch" =>
        \A in \in C14_DisabledFailures :
            LET eff == step_fetch(in)
            IN  /\ eff.pc = "done"
                /\ eff.status # None
                /\ eff.status[1].status = "error"
                /\ C14_SaysDisabled(eff.status[1].error_message)
                /\ ~eff.processed
                /\ ~Processed

\* --------------------------------------------------------------------- C15
\* the message the classification by substrings gives a description
C15_Classified(e) ==
    LET description == lower(e)
    IN  IF contains(description, "disabled") THEN MSG_DISABLED
        ELSE IF contains(description, "private") \/ contains(description, "unavailable")
        THEN MSG_UNAVAILABLE
        ELSE IF contains(description, "not found") THEN MSG_NOT_FOUND
        ELSE MSG_FETCH_OTHER \o e

\* C15: in the fetch step, fetch_transcript reports every failure of the
\* provider as a failure whose message is the one of its kind: Disabled when
\* the description contains "disabled", Unavailable when it contains
\* "private" or "unavailable", NotFound when it contains "not found", else
\* Other followed by the description; a result without a usable segment is
\* reported as a failure.
C15_Classification ==
    run.pc = "fetch" =>
        \A in \in { i \in FetchInputs : i.key } :
            LET result == fetch_transcript(in.r)
            IN  /\ in.r.kind = "raise" =>
                       (~result.success /\ result.error = C15_Classified(in.r.e))
                /\ (in.r.kind = "data" /\ usable(in.r.data) = << >>) =>
                       (~result.success /\ result.error # << >>)
                /\ result.success => (result.transcript # << >> /\ in.r.kind = "data")

\* --------------------------------------------------------------------- C16
C16_Step ==
    (req = "inline" /\ req' = "responded") =>
        /\ out'.kind = "create"
        /\ out'.success
        /\ run'.pc = "done"
        /\ Terminal(status')

C16_Returned ==
    /\ (req = "responded" /\ run.path = "sync") => Terminal(status)
    /\ req = "inline" => ~(out.kind = "create" /\ out.success)

C17_Step ==
    /\ (run.pc # "crashed" /\ run'.pc = "crashed") => status' = status
    /\ run.pc = "crashed" =>
           /\ status' = status
           /\ session' = session
           /\ transcript' = transcript
           /\ run' = run

C17_Stuck ==
    run.pc = "crashed" =>
        /\ status = run.status
        /\ status[1].status \in { "fetching", "processing", "embedding" }

\* C17: when the worker stops between two steps of a run, the status row is
\* the last one the run stored, a stage and not error, and it stays so: no
\* later step (poll, question, history, another request) changes it.
C17_CrashLeavesStatus == []C17_Stuck /\ [][C17_Step]_vars

\* the worker stopped after storing processing/40 and a later poll reports
\* that stage
C17_Witness ==
    /\ run.pc = "crashed"
    /\ out.kind = "status"
    /\ out.success
    /\ out.status = "processing"
    /\ out.progress = 40

\* --------------------------------------------------------------------- C18
\* questions to an object whose build failed
C18_Refused ==
    call.name = "ask_question" =>
        /\ returned.ready = instance[1].qa_chain
        /\ ~instance[1].qa_chain =>
               /\ ~returned.ready
               /\ ~returned.result.success
               /\ returned.result.error = MSG_NOT_PROCESSED
               /\ ~returned.result.invoked

C18_Aborted ==
    (call.name = "process_transcript" /\ call.emb.fail_batch # 0) =>
        /\ ~returned.success
        /\ returned.error = MSG_PROCESS \o call.emb.e
        /\ returned.embedded = call.emb.fail_batch
        /\ ~is_ready(instance[1])
        /\ ~instance[1].qa_chain

C18_Step ==
    (call.name = "process_transcript" /\ ~returned.success) => instance' = instance

\* C18: when embedding a batch fails during a build (the first batch or a
\* later one), process_transcript returns a failure with that error after
\* embedding no batch beyond the failing one, the object is not ready, stays
\* so, and every question to it is refused without invoking the chain, also
\* when the object holds the index of the batches embedded before.
C18_NoPartialIndex == [](C18_Aborted /\ C18_Refused) /\ [][C18_Step]_vars

\* the second batch failed, the object holds the index of the first batch,
\* and a question to it was refused
C18_Witness ==
    /\ call.name = "ask_question"
    /\ Len(given) > BATCH
    /\ instance[1].vector_store = Some(SubSeq(given, 1, BATCH))
    /\ ~returned.ready
    /\ returned.result.error = MSG_NOT_PROCESSED

\* --------------------------------------------------------------------- C19
C19_Built ==
    (call.name # "none" /\ call.name # "__init__" /\ instance[1].qa_chain) =>
        /\ Len(instance[1].vector_store[1]) = Len(given)
        /\ instance[1].vector_store = Some(from_documents(given))
        /\ \A question \in BuildQuestions :
               retrieve(instance[1].vector_store[1], question)
                   = retrieve(from_documents(given), question)

C19_Answered ==
    (call.name = "ask_question" /\ returned.result.success) =>
        returned.result.context
            = format_docs(retrieve(from_documents(given), call.question))

\* C19: for every number of chunks the build in batches of at most 60 leaves
\* an index that holds every chunk once, the same index as
\* from_documents over all the chunks at once, and every question retrieves
\* from it the same top-k as from that single-batch index.
C19_BatchedEqualsSingle == C19_Built /\ C19_Answered

\* MaxChunks chunks were indexed in three batches and a question retrieved
\* its nearest chunks from all three of them
C19_Witness ==
    /\ call.name = "ask_question"
    /\ Len(given) = MaxChunks
    /\ Len(batches(given)) = 3
    /\ returned.result.success
    /\ returned.result.context
           = format_docs(<< given[50], given[100], given[150], given[1] >>)

\* --------------------------------------------------------------------- C20
\* the question requests for which the key is set, the question is not
\* empty, and embedding, generation and the write of the message succeed
C20_GoodInputs ==
    { in \in AskInputs :
         /\ strip(in.body) # << >>
         /\ in.key
         /\ in.emb.fail_batch = 0
         /\ in.gen.ok
         /\ in.saved }

C20_Ready ==
    (Processed /\ messages = << >>) =>
        \A in \in C20_GoodInputs :
            LET response == ask_post(session, transcript, in.body, in.key, in.emb,
                                     in.gen, in.saved)
            IN  /\ response.success
                /\ response.built
                /\ response.invoked
                /\ response.answer = in.gen.answer

C20_Step ==
    (out'.kind = "ask" /\ out'.success) =>
        /\ out'.built
        /\ out'.answer # << >>
        /\ out'.message_id = Len(messages')
        /\ status' = status
        /\ transcript' = transcript

\* C20: the first question to a session whose ingestion marked it processed
\* succeeds whenever embedding and generation do: the request itself builds
\* the index from the stored raw transcript, with no other operation between
\* ingestion and the question, and returns the answer and the id of the
\* message it stored.
C20_FirstQuestion == []C20_Ready /\ [][C20_Step]_vars

\* the first question of a completed session was answered
C20_Witness ==
    /\ status # None
    /\ Stage(status[1]) = << "completed", 100 >>
    /\ Len(messages) = 1
    /\ out.kind = "ask"
    /\ out.success
    /\ out.built
    /\ out.message_id = 1

\* --------------------------------------------------------------------- C21
\* ' '.join of the texts of the stored segments
joined_text(raw) == join(<< SP >>, [i \in 1..Len(raw) |-> raw[i].text])

C21_Step ==
    /\ (transcript = None /\ transcript' # None) =>
           /\ run.pc = "save_raw"
           /\ status[1].status = "processing"
           /\ run.transcript_result # None
           /\ fetch_transcript([kind |-> "data", data |->
                  [i \in 1..Len(run.transcript_result[1]) |->
                      [ok |-> TRUE, text |-> run.transcript_result[1][i].text]],
                  e |-> << >>]).success
           /\ transcript'[1] = VideoTranscript(run.transcript_result[1], << >>)
    /\ (transcript # None /\ transcript' # transcript) =>
           /\ transcript' # None
           /\ ~transcript[1].embeddings_created
           /\ run.pc = "process"
           /\ status[1].status = "embedding"
           /\ process_transcript(transcript[1].raw_transcript, AnyEmb).success
           /\ transcript'[1] =
                  [transcript[1] EXCEPT
                      !.full_text = joined_text(transcript[1].raw_transcript),
                      !.chunk_count = Len(split_text(joined_text(transcript[1].raw_transcript))),
                      !.embeddings_created = TRUE]
           /\ transcript'[1].chunk_count >= 1

\* C21: the transcript row is created only in the step that follows a
\* successful fetch, holding the fetched segments; it changes once more, in
\* the step whose chunking and index build succeeded, to hold full_text,
\* chunk_count and embeddings_created = true; after that no step, a question
\* that rebuilds the index included, changes it.
C21_TranscriptWrittenTwice == [][C21_Step]_vars

\* two questions rebuilt the index of a session and its transcript row is
\* the one the run saved
C21_Witness ==
    /\ EmbeddingsCreated
    /\ Len(transcript[1].raw_transcript) = 2
    /\ Len(messages) = 2
    /\ transcript[1].chunk_count = 1

\* --------------------------------------------------------------------- C22
C22_Failed == status # None /\ status[1].status = "error"

C22_Step ==
    /\ (req # "responded" /\ req' = "responded") =>
           /\ session # None
           /\ session' = session
           /\ out' = [kind |-> "create", success |-> TRUE,
                      video_id |-> session[1].video_id]
    /\ (poll # None /\ poll' = None /\ C22_Failed) =>
           /\ out'.kind = "status"
           /\ out'.success
           /\ out'.status = "error"
           /\ out'.error = Some(status[1].error_message)

C22_Responses ==
    /\ (out.kind = "create" /\ out.success) => "error" \notin DOMAIN out
    /\ (out.kind = "history" /\ out.success) => "error" \notin DOMAIN out
    /\ (out.kind = "ask" /\ C22_Failed) => out.error = MSG_STILL_PROCESSING
    /\ (out.kind = "status" /\ out.success /\ out.status # "error") => out.error = None

\* C22: the response of an accepted create-session request reports success
\* and the session whatever the run did, also when the inline run has already
\* stored error; the stored error and its message are returned by the status
\* response and by no other response (a question to the failed session is
\* told that the video is still being processed, the history carries no
\* error).
C22_FailureOnlyInStatus == []C22_Responses /\ [][C22_Step]_vars

\* the inline run failed while building the index, create-session had
\* answered with success, and a poll returned the error with its message
C22_Witness ==
    /\ req = "responded"
    /\ run.path = "sync"
    /\ status # None
    /\ Stage(status[1]) = << "error", 70 >>
    /\ out.kind = "status"
    /\ out.status = "error"
    /\ out.error = Some(status[1].error_message)

\* --------------------------------------------------------------------- C23
\* the patterns that match the URL with a capture of 11 characters
C23_Yielding(url) ==
    { k \in 1..Len(patterns) :
         /\ re_search(patterns[k], url) # None
         /\ id_len(re_search(patterns[k], url)[1]) = 11 }

\* C23: extract_video_id returns the capture of the first pattern, in the
\* order watch or short link, embed, direct path, that matches the URL with a
\* capture of exactly 11 characters, passing over the patterns that match
\* with a capture of another length; it returns None when no pattern yields
\* such a capture, and what it returns is always 11 characters long.
C23_FirstOfLength11 ==
    call.name = "extract_video_id" =>
        LET yielding == C23_Yielding(call.url)
        IN  /\ yielding = { } => returned.video_id = None
            /\ yielding # { } =>
                   returned.video_id =
                       re_search(patterns[CHOOSE k \in yielding :
                                              \A j \in yielding : k <= j], call.url)
            /\ returned.video_id # None => text_len(returned.video_id[1]) = 11

\* the short-link pattern matched with a capture that is too long, was passed
\* over, and the embed pattern gave the id
C23_Witness ==
    /\ call.name = "extract_video_id"
    /\ call.url = << SHORT, "abc", EMBED, VIDEO_ID >>
    /\ re_search(patterns[1], call.url) = Some(<< "abc", EMBED, VIDEO_ID >>)
    /\ returned.video_id = Some(<< VIDEO_ID >>)

\* --------------------------------------------------------------------- C24
\* what may precede and follow the id of a valid URL
C24_Schemes == { << >>, << "https://" >> }

\* watch, short-link and embed URLs of the 11-character id; a watch URL may
\* carry further query parameters before or after v
C24_ValidUrls ==
    { scheme \o << shape, VIDEO_ID >> \o tail :
          scheme \in C24_Schemes, shape \in { SHORT, EMBED }, tail \in { << >> } }
    \cup
    { scheme \o << shape, VIDEO_ID >> \o tail :
          scheme \in C24_Schemes, shape \in { WATCH, WATCH_LATER },
          tail \in { << >>, << "&" >> } }

\* no pattern matches, or every pattern that matches captures a text of
\* another length
C24_NoShape(url) ==
    \A k \in 1..Len(patterns) :
        \/ re_search(patterns[k], url) = None
        \/ id_len(re_search(patterns[k], url)[1]) # 11

\* C24: for every valid watch, short-link and embed URL of an 11-character id
\* the resolver returns that id, and for a URL with no matching shape or with
\* captures of another length only it returns None.
C24_ValidShapesResolve ==
    call.name = "extract_video_id" =>
        /\ call.url \in C24_ValidUrls => returned.video_id = Some(<< VIDEO_ID >>)
        /\ C24_NoShape(call.url) => returned.video_id = None

\* --------------------------------------------------------------------- C25
\* the requests that pass the checks of the handler and get a processor
C25_Accepted ==
    { in \in AskInputs : strip(in.body) # << >> /\ in.key }

\* C25: whenever the session is marked processed, its transcript row exists
\* with embeddings_created = true, chunk_count >= 1 and full_text equal to
\* the texts of its raw segments, in order, joined by single spaces; so every
\* accepted question finds the row and rebuilds the index from its segments.
C25_ProcessedHasTranscript ==
    Processed =>
        /\ transcript # None
        /\ transcript[1].embeddings_created
        /\ transcript[1].chunk_count >= 1
        /\ transcript[1].full_text = joined_text(transcript[1].raw_transcript)
        /\ \A in \in C25_Accepted :
               ask_post(session, transcript, in.body, in.key, in.emb, in.gen,
                        in.saved).built

\* a processed session of two segments, whose full text holds the space
\* between them, rebuilt its index for a question
C25_Witness ==
    /\ Processed
    /\ Len(transcript[1].raw_transcript) = 2
    /\ Len(transcript[1].full_text) =
           Len(transcript[1].raw_transcript[1].text) + 1
               + Len(transcript[1].raw_transcript[2].text)
    /\ transcript[1].full_text[Len(transcript[1].raw_transcript[1].text) + 1] = SP
    /\ out.kind = "ask"
    /\ out.built

\* --------------------------------------------------------------------- C26
\* the number of chunks of the store at distance d of the question
C26_Near(store, question, d) ==
    Cardinality({ n \in 1..Len(store) : distance(store[n], question) = d })

\* docs are the k nearest chunks of the store, nearest first: k of its
\* chunks, or all of them when it holds fewer, of which as many are at
\* distance 0 as the store and k allow
C26_TopK(docs, store, question) ==
    /\ Len(docs) = (IF Len(store) < TOP_K THEN Len(store) ELSE TOP_K)
    /\ \A i \in 1..Len(docs) : \E n \in 1..Len(store) : docs[i] = store[n]
    /\ C26_Near(docs, question, 0) =
           (IF C26_Near(store, question, 0) < Len(docs)
            THEN C26_Near(store, question, 0) ELSE Len(docs))
    /\ \A i, j \in 1..Len(docs) :
           i < j => distance(docs[i], question) <= distance(docs[j], question)

====
